---- MODULE Spec2Model ----
(***************************************************************************)
(* The CWebKit header shims (JavaScriptCore.h, WPEWebKit.h, WebKitGTK.h)   *)
(* as seen by the C preprocessor.  A translation unit is the preprocessor  *)
(* state: the include search path, whether the toolchain knows             *)
(* __has_include, the macros defined so far, what each shim has included,  *)
(* and whether a fatal "file not found" has ended the translation.         *)
(* tu is the translation unit under study and nIncl counts its #include    *)
(* directives per shim; tu2 is a second build of the same sources on a     *)
(* different include search path; seen collects, over successive builds,   *)
(* the outcomes one shim has produced.                                     *)
(***************************************************************************)
EXTENDS Integers, Sequences, FiniteSets, TLC

VARIABLES tu, nIncl, tu2, seen

vars == <<tu, nIncl, tu2, seen>>

\* How often one translation unit may #include the same shim.
MaxRepeats == 2

\* ------------------------------------------------------------------ names

JavaScriptCore == "JavaScriptCore.h"
WPEWebKit == "WPEWebKit.h"
WebKitGTK == "WebKitGTK.h"

Shims == {JavaScriptCore, WPEWebKit, WebKitGTK}

JavaScript_h == "JavaScriptCore/JavaScript.h"
jsc_h == "jsc/jsc.h"
wpe_webkit_h == "wpe/webkit.h"
glib_h == "glib.h"
gio_h == "gio/gio.h"
webkit2_h == "webkit2/webkit2.h"
gtk_h == "gtk/gtk.h"

Headers == {JavaScript_h, jsc_h, wpe_webkit_h, glib_h, gio_h, webkit2_h, gtk_h}

CWebKit_JavaScriptCore_h == "CWebKit_JavaScriptCore_h"
CWebKit_WPEWebKit_h == "CWebKit_WPEWebKit_h"
CWebKit_WebKitGTK_h == "CWebKit_WebKitGTK_h"

CWEBKIT_HAS_JAVASCRIPTCORE == "CWEBKIT_HAS_JAVASCRIPTCORE"
CWEBKIT_HAS_WPE == "CWEBKIT_HAS_WPE"
CWEBKIT_HAS_GTK == "CWEBKIT_HAS_GTK"

CapabilityMacros == {CWEBKIT_HAS_JAVASCRIPTCORE, CWEBKIT_HAS_WPE, CWEBKIT_HAS_GTK}

\* The include guard each shim tests and defines.
Guard(s) ==
  CASE s = JavaScriptCore -> CWebKit_JavaScriptCore_h
    [] s = WPEWebKit -> CWebKit_WPEWebKit_h
    [] s = WebKitGTK -> CWebKit_WebKitGTK_h

\* The capability macro each shim defines.
Macro(s) ==
  CASE s = JavaScriptCore -> CWEBKIT_HAS_JAVASCRIPTCORE
    [] s = WPEWebKit -> CWEBKIT_HAS_WPE
    [] s = WebKitGTK -> CWEBKIT_HAS_GTK

\* The native header(s) each shim probes for its capability macro.
Targets(s) ==
  CASE s = JavaScriptCore -> {JavaScript_h, jsc_h}
    [] s = WPEWebKit -> {wpe_webkit_h}
    [] s = WebKitGTK -> {webkit2_h}

NoShim == "none"

\* ------------------------------------------------- preprocessor directives

\* A translation unit before its first directive.
Fresh(present, hasInclude) ==
  [present |-> present,
   hasInclude |-> hasInclude,
   guards |-> {},
   macros |-> <<>>,
   defs |-> [m \in CapabilityMacros |-> 0],
   included |-> [s \in Shims |-> <<>>],
   fatalIn |-> NoShim]

\* The test taken as passed on every toolchain.
IfdefHasIncludeAlways(t) == TRUE

\* #ifdef __has_include
IfdefHasInclude(t) == t.hasInclude

\* __has_include(<h>)
HasInclude(t, h) == h \in t.present

\* #include <h>, written in shim s: a header that is not on the search path
\* is a fatal error, and nothing after it is processed.
Include(t, s, h) ==
  IF t.fatalIn # NoShim THEN t
  ELSE IF h \in t.present
       THEN [t EXCEPT !.included[s] = Append(@, h)]
       ELSE [t EXCEPT !.fatalIn = s]

\* #define m v
Define(t, m, v) ==
  IF t.fatalIn # NoShim THEN t
  ELSE [t EXCEPT !.macros = (m :> v) @@ @, !.defs[m] = @ + 1]

\* The guard test taken as passed on every inclusion.
IfndefAlways(t, g) == TRUE

\* #ifndef g
Ifndef(t, g) == g \notin t.guards

\* #define g
DefineGuard(t, g) == [t EXCEPT !.guards = @ \cup {g}]

\* ------------------------------------------------------------ JavaScriptCore.h

\* The probe with the jsc/jsc.h branch left out.
JavaScriptCoreProbeNoElif(t) ==
  IF IfdefHasInclude(t)
  THEN IF HasInclude(t, JavaScript_h)
       THEN Define(Include(t, JavaScriptCore, JavaScript_h), CWEBKIT_HAS_JAVASCRIPTCORE, 1)
       ELSE Define(t, CWEBKIT_HAS_JAVASCRIPTCORE, 0)
  ELSE Define(t, CWEBKIT_HAS_JAVASCRIPTCORE, 0)

\* The probe with the two candidates tested in the opposite order.
JavaScriptCoreProbeJscFirst(t) ==
  IF IfdefHasInclude(t)
  THEN IF HasInclude(t, jsc_h)
       THEN Define(Include(t, JavaScriptCore, jsc_h), CWEBKIT_HAS_JAVASCRIPTCORE, 1)
       ELSE IF HasInclude(t, JavaScript_h)
            THEN Define(Include(t, JavaScriptCore, JavaScript_h), CWEBKIT_HAS_JAVASCRIPTCORE, 1)
            ELSE Define(t, CWEBKIT_HAS_JAVASCRIPTCORE, 0)
  ELSE Define(t, CWEBKIT_HAS_JAVASCRIPTCORE, 0)

\* #ifdef __has_include ... #endif of JavaScriptCore.h
JavaScriptCoreProbe(t) ==
  IF IfdefHasInclude(t)
  THEN IF HasInclude(t, JavaScript_h)
       THEN Define(Include(t, JavaScriptCore, JavaScript_h), CWEBKIT_HAS_JAVASCRIPTCORE, 1)
       ELSE IF HasInclude(t, jsc_h)
            THEN Define(Include(t, JavaScriptCore, jsc_h), CWEBKIT_HAS_JAVASCRIPTCORE, 1)
            ELSE Define(t, CWEBKIT_HAS_JAVASCRIPTCORE, 0)
  ELSE Define(t, CWEBKIT_HAS_JAVASCRIPTCORE, 0)

\* The whole file, include guard and all.
JavaScriptCoreShim(t) ==
  IF Ifndef(t, CWebKit_JavaScriptCore_h)
  THEN JavaScriptCoreProbe(DefineGuard(t, CWebKit_JavaScriptCore_h))
  ELSE t

\* ----------------------------------------------------------------- WPEWebKit.h

\* The probe with the inner #else branch left out.
WPEProbeNoElse(t) ==
  IF IfdefHasInclude(t)
  THEN IF HasInclude(t, wpe_webkit_h)
       THEN Define(Include(t, WPEWebKit, wpe_webkit_h), CWEBKIT_HAS_WPE, 1)
       ELSE t
  ELSE Define(t, CWEBKIT_HAS_WPE, 0)

\* The probe asking for glib.h as well as wpe/webkit.h.
WPEProbeNeedsGLib(t) ==
  IF IfdefHasInclude(t)
  THEN IF HasInclude(t, wpe_webkit_h) /\ HasInclude(t, glib_h)
       THEN Define(Include(t, WPEWebKit, wpe_webkit_h), CWEBKIT_HAS_WPE, 1)
       ELSE Define(t, CWEBKIT_HAS_WPE, 0)
  ELSE Define(t, CWEBKIT_HAS_WPE, 0)

\* The first #ifdef __has_include ... #endif of WPEWebKit.h
WPEProbe(t) ==
  IF IfdefHasInclude(t)
  THEN IF HasInclude(t, wpe_webkit_h)
       THEN Define(Include(t, WPEWebKit, wpe_webkit_h), CWEBKIT_HAS_WPE, 1)
       ELSE Define(t, CWEBKIT_HAS_WPE, 0)
  ELSE Define(t, CWEBKIT_HAS_WPE, 0)

\* The GLib block with its #ifdef __has_include test left out.
WPEGLibBlockNoIfdef(t) ==
  IF HasInclude(t, glib_h)
  THEN Include(Include(t, WPEWebKit, glib_h), WPEWebKit, gio_h)
  ELSE t

\* The second #ifdef __has_include ... #endif of WPEWebKit.h: glib.h is
\* probed, gio/gio.h is included without a probe of its own.
WPEGLibBlock(t) ==
  IF IfdefHasInclude(t)
  THEN IF HasInclude(t, glib_h)
       THEN Include(Include(t, WPEWebKit, glib_h), WPEWebKit, gio_h)
       ELSE t
  ELSE t

WPEWebKitShim(t) ==
  IF Ifndef(t, CWebKit_WPEWebKit_h)
  THEN WPEGLibBlock(WPEProbe(DefineGuard(t, CWebKit_WPEWebKit_h)))
  ELSE t

\* ----------------------------------------------------------------- WebKitGTK.h

\* #ifdef __has_include ... #endif of WebKitGTK.h: webkit2/webkit2.h is
\* probed, gtk/gtk.h is included without a probe of its own.
GTKProbe(t) ==
  IF IfdefHasInclude(t)
  THEN IF HasInclude(t, webkit2_h)
       THEN Define(Include(Include(t, WebKitGTK, webkit2_h), WebKitGTK, gtk_h),
                   CWEBKIT_HAS_GTK, 1)
       ELSE Define(t, CWEBKIT_HAS_GTK, 0)
  ELSE Define(t, CWEBKIT_HAS_GTK, 0)

WebKitGTKShim(t) ==
  IF Ifndef(t, CWebKit_WebKitGTK_h)
  THEN GTKProbe(DefineGuard(t, CWebKit_WebKitGTK_h))
  ELSE t

\* #include of shim s.
IncludeShim(t, s) ==
  CASE s = JavaScriptCore -> JavaScriptCoreShim(t)
    [] s = WPEWebKit -> WPEWebKitShim(t)
    [] s = WebKitGTK -> WebKitGTKShim(t)

\* ------------------------------------------------------------- translation unit

\* The build environments: every include search path, with and without
\* __has_include.
Init ==
  \E present \in SUBSET Headers, hasInclude \in BOOLEAN :
    /\ tu = Fresh(present, hasInclude)
    /\ tu2 = Fresh(present, hasInclude)
    /\ nIncl = [s \in Shims |-> 0]
    /\ seen = [shim |-> NoShim, outcomes |-> {}]

\* One #include directive of the translation unit names shim s.
IncludeDirective(s) ==
  /\ tu.fatalIn = NoShim
  /\ nIncl[s] < MaxRepeats
  /\ tu' = IncludeShim(tu, s)
  /\ nIncl' = [nIncl EXCEPT ![s] = @ + 1]
  /\ UNCHANGED <<tu2, seen>>

IncludeJavaScriptCore == IncludeDirective(JavaScriptCore)
IncludeWPEWebKit == IncludeDirective(WPEWebKit)
IncludeWebKitGTK == IncludeDirective(WebKitGTK)

Next ==
  \/ IncludeJavaScriptCore
  \/ IncludeWPEWebKit
  \/ IncludeWebKitGTK

Spec == Init /\ [][Next]_vars

\* ------------------------------------------- two builds of the same sources

\* The same sources built by the same toolchain with one header added to or
\* removed from the include search path.
InitPair ==
  \E present \in SUBSET Headers, hasInclude \in BOOLEAN, h \in Headers :
    /\ tu = Fresh(present, hasInclude)
    /\ tu2 = Fresh((present \ {h}) \cup ({h} \ present), hasInclude)
    /\ nIncl = [s \in Shims |-> 0]
    /\ seen = [shim |-> NoShim, outcomes |-> {}]

\* An #include of shim s in the first build; how often it is repeated is
\* not counted here.
FirstIncludeDirective(s) ==
  /\ tu.fatalIn = NoShim
  /\ tu' = IncludeShim(tu, s)
  /\ UNCHANGED <<tu2, nIncl, seen>>

FirstIncludeJavaScriptCore == FirstIncludeDirective(JavaScriptCore)
FirstIncludeWPEWebKit == FirstIncludeDirective(WPEWebKit)
FirstIncludeWebKitGTK == FirstIncludeDirective(WebKitGTK)

\* An #include of shim s in the second build.
OtherIncludeDirective(s) ==
  /\ tu2.fatalIn = NoShim
  /\ tu2' = IncludeShim(tu2, s)
  /\ UNCHANGED <<tu, nIncl, seen>>

OtherIncludeJavaScriptCore == OtherIncludeDirective(JavaScriptCore)
OtherIncludeWPEWebKit == OtherIncludeDirective(WPEWebKit)
OtherIncludeWebKitGTK == OtherIncludeDirective(WebKitGTK)

NextPair ==
  \/ FirstIncludeJavaScriptCore
  \/ FirstIncludeWPEWebKit
  \/ FirstIncludeWebKitGTK
  \/ OtherIncludeJavaScriptCore
  \/ OtherIncludeWPEWebKit
  \/ OtherIncludeWebKitGTK

SpecPair == InitPair /\ [][NextPair]_vars

\* ------------------------------------------------------------------ observers

\* The preprocessor reached the #endif that closes shim s.
Completed(t, s) == Guard(s) \in t.guards /\ t.fatalIn # s

IsDefined(t, m) == m \in DOMAIN t.macros

Range(q) == {q[i] : i \in 1..Len(q)}

\* What including shim s left behind: its macro's value and the headers it
\* included.
Outcome(t, s) == <<t.macros[Macro(s)], Range(t.included[s])>>

\* ------------------------------------- one shim built on many environments

__has_include == "__has_include"

\* The build environment of t with x changed: a header added to or removed
\* from the include search path, or the toolchain swapped for one with or
\* without __has_include.
Changed(t, x) ==
  IF x = __has_include
  THEN Fresh(t.present, ~t.hasInclude)
  ELSE Fresh((t.present \ {x}) \cup ({x} \ t.present), t.hasInclude)

\* A translation unit consisting of #include of shim s is built again after
\* one change to the build environment, and the outcome is noted.
Rebuild(s) ==
  /\ seen.shim \in {NoShim, s}
  /\ \E x \in Headers \cup {__has_include} :
       LET t == IncludeShim(Changed(tu, x), s) IN
         /\ tu' = t
         /\ seen' = [shim |-> s,
                     outcomes |-> IF Completed(t, s)
                                  THEN seen.outcomes \cup {Outcome(t, s)}
                                  ELSE seen.outcomes]
  /\ nIncl' = [r \in Shims |-> IF r = s THEN 1 ELSE 0]
  /\ UNCHANGED tu2

RebuildJavaScriptCore == Rebuild(JavaScriptCore)
RebuildWPEWebKit == Rebuild(WPEWebKit)
RebuildWebKitGTK == Rebuild(WebKitGTK)

NextMatrix ==
  \/ RebuildJavaScriptCore
  \/ RebuildWPEWebKit
  \/ RebuildWebKitGTK

\* The first build is on a bare system: nothing on the include search path
\* and a toolchain without __has_include.
InitMatrix ==
  /\ tu = Fresh({}, FALSE)
  /\ tu2 = Fresh({}, FALSE)
  /\ nIncl = [s \in Shims |-> 0]
  /\ seen = [shim |-> NoShim, outcomes |-> {}]

SpecMatrix == InitMatrix /\ [][NextMatrix]_vars

MacroIs(t, s, v) == IsDefined(t, Macro(s)) /\ t.macros[Macro(s)] = v

TargetPresent(t, s) == Targets(s) \cap t.present # {}

AllCompleted(t) == \A s \in Shims : Completed(t, s)

\* ------------------------------------------------------------------------ C1

\* C1 as stated: after a shim is included, in every build environment, with
\* or without __has_include, its capability macro is 1 exactly when its
\* target native header is on the include search path.
C1_MacroIffTargetPresent ==
  \A s \in Shims :
    Completed(tu, s) => (MacroIs(tu, s, 1) <=> TargetPresent(tu, s))

\* C1 amended: whenever a shim's capability macro has a value, it is 1
\* exactly when the toolchain provides __has_include and the shim's target
\* native header is on the include search path; without __has_include it is
\* 0 whatever is present.
C1_MacroIffProbeFound ==
  \A s \in Shims :
    (Completed(tu, s) \/ IsDefined(tu, Macro(s))) =>
      (MacroIs(tu, s, 1) <=> (tu.hasInclude /\ TargetPresent(tu, s)))

C1_Witness ==
  /\ AllCompleted(tu)
  /\ tu.hasInclude
  /\ MacroIs(tu, JavaScriptCore, 1) /\ jsc_h \in tu.present /\ JavaScript_h \notin tu.present
  /\ MacroIs(tu, WPEWebKit, 0) /\ wpe_webkit_h \notin tu.present
  /\ MacroIs(tu, WebKitGTK, 1)

\* ------------------------------------------------------------------------ C2

\* C2: including a shim never ends the build: every #include a shim executes
\* names a header that is on the include search path.
C2_NoBuildFailure == tu.fatalIn = NoShim

\* ------------------------------------------------------------------------ C3

\* The headers the interface promises once the macro of shim s is 1.
Promised(s) ==
  CASE s = JavaScriptCore -> {}
    [] s = WPEWebKit -> {wpe_webkit_h, glib_h, gio_h}
    [] s = WebKitGTK -> {webkit2_h, gtk_h}

\* C3: a capability macro of 1 means the shim has included its native header
\* and, for the GTK and WPE shims, the dependency headers too.
C3_OneImpliesHeadersIncluded ==
  \A s \in Shims :
    (Completed(tu, s) /\ MacroIs(tu, s, 1)) =>
      /\ Range(tu.included[s]) \cap Targets(s) # {}
      /\ Promised(s) \subseteq Range(tu.included[s])

\* ------------------------------------------------------------------------ C4

NoDuplicates(q) == \A i, j \in 1..Len(q) : q[i] = q[j] => i = j

\* C4: re-inclusion is idempotent: a second or later #include of a shim
\* leaves the whole preprocessor state as it was, so no capability macro is
\* ever defined twice and no shim includes a header twice.
C4_ReinclusionIdempotent ==
  /\ [](\A s \in Shims : tu.defs[Macro(s)] <= 1 /\ NoDuplicates(tu.included[s]))
  /\ [][\A s \in Shims :
          (nIncl[s] >= 1 /\ nIncl'[s] = nIncl[s] + 1) => tu' = tu]_vars

C4_Witness ==
  /\ \A s \in Shims : nIncl[s] = MaxRepeats
  /\ AllCompleted(tu)
  /\ tu.hasInclude
  /\ \A s \in Shims : MacroIs(tu, s, 1)

\* ------------------------------------------------------------------------ C5

\* What shim r has defined and included in translation unit t.
Footprint(t, r) ==
  <<Guard(r) \in t.guards, IsDefined(t, Macro(r)), MacroIs(t, r, 1),
    t.defs[Macro(r)], t.included[r]>>

\* C5: the shims are independent.  Two builds of the same sources that agree
\* on a shim's own target headers detect the same value for its macro,
\* whatever else differs on the include search path and in whatever order
\* the shims are included; and a step that does not define a shim's include
\* guard changes nothing that shim defines or includes.
C5_Independent ==
  /\ [](\A s \in Shims :
          (/\ IsDefined(tu, Macro(s))
           /\ IsDefined(tu2, Macro(s))
           /\ tu.present \cap Targets(s) = tu2.present \cap Targets(s))
          => tu.macros[Macro(s)] = tu2.macros[Macro(s)])
  /\ [][\A r \in Shims :
          /\ (Guard(r) \in tu.guards <=> Guard(r) \in tu'.guards)
               => Footprint(tu', r) = Footprint(tu, r)
          /\ (Guard(r) \in tu2.guards <=> Guard(r) \in tu2'.guards)
               => Footprint(tu2', r) = Footprint(tu2, r)]_vars

C5_Witness ==
  /\ AllCompleted(tu) /\ AllCompleted(tu2)
  /\ tu.hasInclude
  /\ glib_h \in tu.present /\ glib_h \notin tu2.present
  /\ MacroIs(tu, WPEWebKit, 1) /\ MacroIs(tu2, WPEWebKit, 1)
  /\ MacroIs(tu, WebKitGTK, 1) /\ MacroIs(tu2, WebKitGTK, 1)
  /\ MacroIs(tu, JavaScriptCore, 0) /\ MacroIs(tu2, JavaScriptCore, 0)

\* ------------------------------------------------------------------------ C6

\* C6: once a shim has been included its capability macro is defined, by
\* exactly one #define, with value 0 or 1; before the shim's first inclusion
\* the macro is not defined.
C6_DefinedOnceZeroOrOne ==
  \A s \in Shims :
    /\ Completed(tu, s) =>
         /\ IsDefined(tu, Macro(s))
         /\ tu.defs[Macro(s)] = 1
         /\ tu.macros[Macro(s)] \in {0, 1}
    /\ Guard(s) \notin tu.guards =>
         /\ ~IsDefined(tu, Macro(s))
         /\ tu.defs[Macro(s)] = 0

C6_Witness ==
  /\ Completed(tu, WPEWebKit) /\ MacroIs(tu, WPEWebKit, 0) /\ tu.hasInclude
  /\ Completed(tu, WebKitGTK) /\ MacroIs(tu, WebKitGTK, 1)
  /\ Guard(JavaScriptCore) \notin tu.guards

\* ------------------------------------------------------------------------ C7

\* C7: a shim includes headers only if its target native header was found:
\* a shim that was included without finding its target, and so has its macro
\* at 0, has included no header at all.
C7_ZeroIncludesNothing ==
  \A s \in Shims :
    Completed(tu, s) =>
      /\ tu.included[s] # <<>> => (tu.hasInclude /\ TargetPresent(tu, s))
      /\ MacroIs(tu, s, 0) => tu.included[s] = <<>>

\* ------------------------------------------------------------------------ C8

\* Every outcome of including shim s alone, over all include search paths
\* and both kinds of toolchain, where the inclusion completes.
Outcomes(s) ==
  {Outcome(IncludeShim(Fresh(p, h), s), s) :
     <<p, h>> \in {e \in (SUBSET Headers) \X BOOLEAN :
                     Completed(IncludeShim(Fresh(e[1], e[2]), s), s)}}

AllOutcomes == [s \in Shims |-> Outcomes(s)]

\* C8 as stated: over all build environments the pair (macro value, set of
\* headers the shim included) takes exactly two values for each shim, so
\* however many environments a shim is built on, no third outcome shows up.
C8_TwoOutcomes ==
  seen.shim # NoShim => Cardinality(seen.outcomes) <= 2

\* The outcomes of each shim, written out.
ListedOutcomes(s) ==
  CASE s = JavaScriptCore ->
         {<<0, {}>>, <<1, {JavaScript_h}>>, <<1, {jsc_h}>>}
    [] s = WPEWebKit ->
         {<<0, {}>>, <<0, {glib_h, gio_h}>>,
          <<1, {wpe_webkit_h}>>, <<1, {wpe_webkit_h, glib_h, gio_h}>>}
    [] s = WebKitGTK ->
         {<<0, {}>>, <<1, {webkit2_h, gtk_h}>>}

\* C8 amended: over all build environments each capability macro takes
\* exactly the two values 0 and 1, but the pair (macro value, set of headers
\* the shim included) takes two values only for the GTK shim; it takes three
\* for the JavaScriptCore shim (either candidate header may be the one
\* included) and four for the WPE shim (glib.h and gio/gio.h are included or
\* not independently of the macro).
C8_OutcomesPerShim ==
  /\ seen.shim # NoShim => seen.outcomes \subseteq ListedOutcomes(seen.shim)
  /\ \A s \in Shims :
       /\ AllOutcomes[s] = ListedOutcomes(s)
       /\ {o[1] : o \in AllOutcomes[s]} = {0, 1}

C8_Witness ==
  /\ seen.shim = WPEWebKit
  /\ seen.outcomes = ListedOutcomes(WPEWebKit)
  /\ Cardinality(seen.outcomes) = 4

\* ------------------------------------------------------------------------ C9

\* C9: the JavaScriptCore shim includes at most one of its two candidate
\* headers.  Where its probe runs, JavaScriptCore/JavaScript.h is the one
\* included whenever it is present, jsc/jsc.h is never included alongside or
\* instead of it, and jsc/jsc.h is included exactly when it is present and
\* JavaScriptCore/JavaScript.h is not; whichever is included, the macro is 1.
C9_JavaScriptCorePrecedence ==
  Completed(tu, JavaScriptCore) =>
    LET inc == tu.included[JavaScriptCore] IN
      /\ Len(inc) <= 1
      /\ JavaScript_h \in tu.present => jsc_h \notin Range(inc)
      /\ (tu.hasInclude /\ JavaScript_h \in tu.present) => inc = <<JavaScript_h>>
      /\ jsc_h \in Range(inc) <=>
           (tu.hasInclude /\ JavaScript_h \notin tu.present /\ jsc_h \in tu.present)
      /\ inc # <<>> => MacroIs(tu, JavaScriptCore, 1)

C9_Witness ==
  /\ Completed(tu, JavaScriptCore)
  /\ {JavaScript_h, jsc_h} \subseteq tu.present
  /\ tu.included[JavaScriptCore] = <<JavaScript_h>>
  /\ MacroIs(tu, JavaScriptCore, 1)

\* ----------------------------------------------------------------------- C10

\* C10: on a toolchain without __has_include every shim that is included
\* defines its macro to 0 and includes no header, the GLib/GIO block of the
\* WPE shim too, whatever is on the include search path; so no inclusion can
\* fail there.
C10_NoHasIncludeMeansZero ==
  ~tu.hasInclude =>
    /\ tu.fatalIn = NoShim
    /\ \A s \in Shims :
         Guard(s) \in tu.guards => (MacroIs(tu, s, 0) /\ tu.included[s] = <<>>)
    /\ \A s \in Shims :
         Guard(s) \notin tu.guards => tu.included[s] = <<>>

C10_Witness ==
  /\ ~tu.hasInclude
  /\ tu.present = Headers
  /\ AllCompleted(tu)
  /\ \A s \in Shims : MacroIs(tu, s, 0) /\ tu.included[s] = <<>>

====
